---- MODULE Spec2Model ----
(***************************************************************************)
(* The wheeled-mobile-manipulator canvas component                         *)
(* (src/app/components/wmm.tsx): the base-position hook, the draw effect,  *)
(* the drawing functions and the inverse-kinematics function.              *)
(*                                                                         *)
(* Numbers.  JavaScript numbers are doubles; the model holds every         *)
(* coordinate and length in fixed point, Unit units to the pixel, so that  *)
(* the half pixels of (canvas.width - baseWidth) / 2 are exact.  A cosine  *)
(* or sine is held as the integer nearest below Unit times its value, and  *)
(* an angle is held as the record [c, s] of its cosine and sine.  DOM      *)
(* attributes (canvas.width, clientWidth, clientX) are whole pixels.       *)
(***************************************************************************)
EXTENDS Integers, Sequences, FiniteSets, TLC

VARIABLES
    surface,        \* "ready" | "noContext" (getContext gives null) | "noCanvas" (ref is null)
    parentWidth,    \* canvas.parentElement.clientWidth, pixels
    canvas,         \* [width, height]: the canvas element's attributes, pixels
    listener,       \* the click listener of useBasePosition is attached
    basePosition,   \* the React state of useBasePosition, as of the last render
    baseState,      \* the state the pending updates of the queue are applied to
    queue,          \* updates issued by setBasePosition that a render has still to apply
    effectPending,  \* a render committed a new basePosition; the draw effect has not run yet
    ctx,            \* the drawing calls of the latest run of the draw effect
    drawn,          \* the pose the latest run of the draw effect drew the base and arm with
    initWrites,     \* history: how many times line 92 called setBasePosition
    clicks,         \* history: how many clicks were handled
    lastClick,      \* history: the latest click, its canvas width and the x it computed
    args,           \* inputs of a direct call of a pure function
    ret             \* result of that call

vars == <<surface, parentWidth, canvas, listener, basePosition, baseState, queue,
          effectPending, ctx, drawn, initWrites, clicks, lastClick, args, ret>>

uiVars == <<surface, parentWidth, canvas, listener, basePosition, baseState, queue,
            effectPending, ctx, drawn, initWrites, clicks, lastClick>>

----------------------------------------------------------------------------
(* Bounds of the model and constants of the program *)

Unit == 100

MaxClicks == 2

baseWidth == 100
baseHeight == 40
wheelRadius == 10
groundHeight == 40
canvasHeight == 300
defaultCanvasWidth == 300
gripperWidth == 30

Px(n) == n * Unit

armLengths == <<Px(60), Px(80), Px(60)>>

\* [Math.PI / 2, 0, -Math.PI / 2] as cosine and sine
armThetas == <<[c |-> 0, s |-> Unit], [c |-> Unit, s |-> 0], [c |-> 0, s |-> -Unit]>>

ParentWidths == {0, 127, 500, 1000}
ClientXs == {-20, 10, 400, 790}
RectLefts == {0, 100}

Min(a, b) == IF a < b THEN a ELSE b
Max(a, b) == IF a > b THEN a ELSE b

----------------------------------------------------------------------------
(* The drawing context: each call is a record [op, a, style] *)

Call(op, a) == [op |-> op, a |-> a, style |-> ""]
Style(op, colour) == [op |-> op, a |-> <<>>, style |-> colour]

\* ctx.beginPath(); ctx.moveTo(x1, y1); ctx.lineTo(x2, y2); ctx.strokeStyle = colour; ctx.stroke()
StrokeSegment(x1, y1, x2, y2, colour) ==
    << Call("beginPath", <<>>), Call("moveTo", <<x1, y1>>), Call("lineTo", <<x2, y2>>),
       Style("strokeStyle", colour), Call("stroke", <<>>) >>

\* drawBase with the wheel centres on the base's left and right edges
drawBaseMutWheelsAtEdges(baseX, baseY, bWidth, bHeight, wRadius, cHeight, gHeight) ==
    << Style("fillStyle", "#000"),
       Call("fillRect", <<baseX, baseY, bWidth, bHeight>>),
       Call("strokeRect", <<baseX, baseY, bWidth, bHeight>>),
       Call("beginPath", <<>>),
       Call("arc", <<baseX, cHeight - gHeight - wRadius, wRadius, 0, 2>>),
       Call("arc", <<baseX + bWidth, cHeight - gHeight - wRadius, wRadius, 0, 2>>),
       Style("fillStyle", "#928f8e"),
       Call("fill", <<>>) >>

\* an arc's start and end angle are counted in multiples of Math.PI
drawBase(baseX, baseY, bWidth, bHeight, wRadius, cHeight, gHeight) ==
    << Style("fillStyle", "#000"),
       Call("fillRect", <<baseX, baseY, bWidth, bHeight>>),
       Call("strokeRect", <<baseX, baseY, bWidth, bHeight>>),
       Call("beginPath", <<>>),
       Call("arc", <<baseX + wRadius, cHeight - gHeight - wRadius, wRadius, 0, 2>>),
       Call("arc", <<baseX + bWidth - wRadius, cHeight - gHeight - wRadius, wRadius, 0, 2>>),
       Style("fillStyle", "#928f8e"),
       Call("fill", <<>>) >>

\* length * Math.cos(theta) or length * Math.sin(theta), the ratio being Unit-scaled
Times(length, ratio) == (length * ratio) \div Unit

\* theta - Math.PI / 2: cos(t - pi/2) = sin t, sin(t - pi/2) = -cos t
MinusHalfPi(theta) == [c |-> theta.s, s |-> -theta.c]

drawGripper(armLink3EndX, armLink3EndY, armTheta3, gWidth) ==
    LET gripperCenterX == armLink3EndX
        gripperCenterY == armLink3EndY
        dir == MinusHalfPi(armTheta3)
        gripperFinger1StartX == gripperCenterX - Times(gWidth \div 2, dir.c)
        gripperFinger1StartY == gripperCenterY - Times(gWidth \div 2, dir.s)
        gripperFinger2EndX == gripperCenterX + Times(gWidth \div 2, dir.c)
        gripperFinger2EndY == gripperCenterY + Times(gWidth \div 2, dir.s)
    IN  StrokeSegment(gripperFinger1StartX, gripperFinger1StartY,
                      gripperCenterX, gripperCenterY, "#e0f")
        \o StrokeSegment(gripperCenterX, gripperCenterY,
                         gripperFinger2EndX, gripperFinger2EndY, "#00f")

\* the end point of a link that starts at (x, y): screen y grows downwards
LinkEndX(x, length, theta) == x + Times(length, theta.c)
LinkEndY(y, length, theta) == y - Times(length, theta.s)

\* drawArm with link 3 started at link 1's end point instead of link 2's
drawArmMutBrokenChain(baseX, baseY, lengths, thetas, bWidth) ==
    LET armLink1StartX == baseX + (bWidth * 100) \div 125
        armLink1StartY == baseY
        armLink1EndX == LinkEndX(armLink1StartX, lengths[1], thetas[1])
        armLink1EndY == LinkEndY(armLink1StartY, lengths[1], thetas[1])
        armLink2EndX == LinkEndX(armLink1EndX, lengths[2], thetas[2])
        armLink2EndY == LinkEndY(armLink1EndY, lengths[2], thetas[2])
        armLink3EndX == LinkEndX(armLink1EndX, lengths[3], thetas[3])
        armLink3EndY == LinkEndY(armLink1EndY, lengths[3], thetas[3])
    IN  StrokeSegment(armLink1StartX, armLink1StartY, armLink1EndX, armLink1EndY, "#f00")
        \o StrokeSegment(armLink1EndX, armLink1EndY, armLink2EndX, armLink2EndY, "#0f0")
        \o StrokeSegment(armLink1EndX, armLink1EndY, armLink3EndX, armLink3EndY, "#f00")
        \o drawGripper(armLink3EndX, armLink3EndY, thetas[3], Px(gripperWidth))

drawArm(baseX, baseY, lengths, thetas, bWidth) ==
    LET armLink1StartX == baseX + (bWidth * 100) \div 125
        armLink1StartY == baseY
        armLink1EndX == LinkEndX(armLink1StartX, lengths[1], thetas[1])
        armLink1EndY == LinkEndY(armLink1StartY, lengths[1], thetas[1])
        armLink2StartX == armLink1EndX
        armLink2StartY == armLink1EndY
        armLink2EndX == LinkEndX(armLink2StartX, lengths[2], thetas[2])
        armLink2EndY == LinkEndY(armLink2StartY, lengths[2], thetas[2])
        armLink3StartX == armLink2EndX
        armLink3StartY == armLink2EndY
        armLink3EndX == LinkEndX(armLink3StartX, lengths[3], thetas[3])
        armLink3EndY == LinkEndY(armLink3StartY, lengths[3], thetas[3])
    IN  StrokeSegment(armLink1StartX, armLink1StartY, armLink1EndX, armLink1EndY, "#f00")
        \o StrokeSegment(armLink2StartX, armLink2StartY, armLink2EndX, armLink2EndY, "#0f0")
        \o StrokeSegment(armLink3StartX, armLink3StartY, armLink3EndX, armLink3EndY, "#f00")
        \o drawGripper(armLink3EndX, armLink3EndY, thetas[3], Px(gripperWidth))

----------------------------------------------------------------------------
(* useBasePosition *)

Sentinel == [x |-> 0, y |-> 0]

\* setBasePosition({x, y}), called from the draw effect (a passive effect: React's
\* default priority), and setBasePosition((prev) => ({...prev, x})), called from a
\* native click listener (a discrete event: React's synchronous priority).  An
\* update a render has applied while an earlier one was skipped stays queued as
\* "done", to be applied again in order once the skipped one is rendered.
SetPose(x, y) == [fn |-> "set", x |-> x, y |-> y, lane |-> "default"]
SetX(x) == [fn |-> "setX", x |-> x, y |-> 0, lane |-> "sync"]

ApplyUpdate(prev, u) ==
    IF u.fn = "set" THEN [x |-> u.x, y |-> u.y] ELSE [prev EXCEPT !.x = u.x]

\* every update of the queue applied in the order of the calls
RECURSIVE ApplyQueue(_, _)
ApplyQueue(prev, q) ==
    IF q = <<>> THEN prev ELSE ApplyQueue(ApplyUpdate(prev, Head(q)), Tail(q))

\* A render of the synchronous priority alone: the updates of the default priority
\* are skipped.  memo is the state the render commits, base the state before the
\* first skipped update, rest the updates from the first skipped one on.
RECURSIVE ApplySync(_, _)
ApplySync(acc, q) ==
    IF q = <<>> THEN acc
    ELSE LET u == Head(q)
         IN  IF u.lane = "default"
             THEN ApplySync([memo |-> acc.memo,
                             base |-> IF acc.rest = <<>> THEN acc.memo ELSE acc.base,
                             rest |-> Append(acc.rest, u)], Tail(q))
             ELSE ApplySync([memo |-> ApplyUpdate(acc.memo, u),
                             base |-> acc.base,
                             rest |-> IF acc.rest = <<>> THEN <<>>
                                      ELSE Append(acc.rest, [u EXCEPT !.lane = "done"])],
                            Tail(q))

HasLane(q, lane) == \E i \in 1..Len(q) : q[i].lane = lane

\* the clamp without its lower bound
newBaseXMutNoFloor(clickedX, bWidth, cWidth) ==
    Min(clickedX - bWidth \div 2, cWidth - bWidth)

\* Math.min(Math.max(clickedX - baseWidth / 2, 0), canvas.width - baseWidth)
newBaseX(clickedX, bWidth, cWidth) ==
    Min(Max(clickedX - bWidth \div 2, 0), cWidth - bWidth)

\* the click listener: clientX and rect.left are whole pixels
handleCanvasClick(clientX, left) ==
    /\ listener
    /\ surface # "noCanvas"
    /\ clicks < MaxClicks
    /\ LET clickedX == Px(clientX) - Px(left)
           x == newBaseX(clickedX, Px(baseWidth), Px(canvas.width))
       IN  /\ queue' = Append(queue, SetX(x))
           /\ lastClick' = [at |-> clickedX, width |-> canvas.width, x |-> x]
    /\ clicks' = clicks + 1
    /\ UNCHANGED <<surface, parentWidth, canvas, listener, basePosition, baseState,
                   effectPending, ctx, drawn, initWrites, args, ret>>

----------------------------------------------------------------------------
(* WMMCanvas *)

\* canvas.width = clientWidth * 0.8: the attribute is an unsigned long, the fraction is dropped
CanvasWidthFor(clientWidth) == (clientWidth * 4) \div 5

\* basePosition.x === 0 && basePosition.y === 0
IsUnset(pos) == pos.x = 0 /\ pos.y = 0

Background(w, h) ==
    << Style("fillStyle", "#ebe4d6"), Call("fillRect", <<0, 0, w, h>>) >>
    \o StrokeSegment(0, h - Px(groundHeight), w, h - Px(groundHeight), "#000")

\* The passive effects of one commit: the listener effect of useBasePosition (it has
\* run once the listener is attached: its dependencies never change), then the draw
\* effect, which draws with the basePosition of the render it belongs to.
FlushEffects ==
    /\ effectPending
    /\ effectPending' = FALSE
    /\ listener' = (surface # "noCanvas")
    /\ IF surface = "ready"
       THEN LET w == CanvasWidthFor(parentWidth)
                baseStartX == (Px(w) - Px(baseWidth)) \div 2
                baseY == Px(canvasHeight) - Px(groundHeight) - Px(baseHeight) - Px(wheelRadius)
                unset == IsUnset(basePosition)
            IN  /\ canvas' = [width |-> w, height |-> canvasHeight]
                /\ queue' = IF unset THEN Append(queue, SetPose(baseStartX, baseY)) ELSE queue
                /\ initWrites' = IF unset THEN initWrites + 1 ELSE initWrites
                /\ ctx' = Background(Px(w), Px(canvasHeight))
                          \o drawBase(basePosition.x, basePosition.y, Px(baseWidth),
                                      Px(baseHeight), Px(wheelRadius), Px(canvasHeight),
                                      Px(groundHeight))
                          \o drawArm(basePosition.x, basePosition.y, armLengths, armThetas,
                                     Px(baseWidth))
                /\ drawn' = basePosition
       ELSE UNCHANGED <<canvas, queue, initWrites, ctx, drawn>>
    /\ UNCHANGED <<surface, parentWidth, basePosition, baseState, clicks, lastClick,
                   args, ret>>

\* React is not part of the sources, and which queued updates one render applies
\* is its choice; both schedules it can follow are steps of the model.  A render
\* starts after the passive effects of the previous commit, and the new state
\* object it commits makes the draw effect run again.

\* One render applies every queued update, in the order of the calls.
RenderAll ==
    /\ ~effectPending
    /\ queue # <<>>
    /\ basePosition' = ApplyQueue(baseState, queue)
    /\ baseState' = basePosition'
    /\ queue' = <<>>
    /\ effectPending' = TRUE
    /\ UNCHANGED <<surface, parentWidth, canvas, listener, ctx, drawn, initWrites, clicks,
                   lastClick, args, ret>>

\* A click's update is rendered at once, ahead of an update of the draw effect that
\* is still queued; that one stays queued for a later render.
RenderSync ==
    /\ ~effectPending
    /\ HasLane(queue, "sync")
    /\ HasLane(queue, "default")
    /\ LET r == ApplySync([memo |-> baseState, base |-> baseState, rest |-> <<>>], queue)
       IN  /\ basePosition' = r.memo
           /\ baseState' = r.base
           /\ queue' = r.rest
    /\ effectPending' = TRUE
    /\ UNCHANGED <<surface, parentWidth, canvas, listener, ctx, drawn, initWrites, clicks,
                   lastClick, args, ret>>

Render == RenderAll \/ RenderSync

\* The layout changes the width of the canvas's parent; nothing listens to it.
Resize(w) ==
    /\ w # parentWidth
    /\ parentWidth' = w
    /\ UNCHANGED <<surface, canvas, listener, basePosition, baseState, queue, effectPending,
                   ctx, drawn, initWrites, clicks, lastClick, args, ret>>

NoCall == [op |-> "none"]

Init ==
    /\ surface \in {"ready", "noContext", "noCanvas"}
    /\ parentWidth \in ParentWidths
    /\ canvas = [width |-> defaultCanvasWidth, height |-> 150]
    /\ listener = FALSE
    /\ basePosition = Sentinel
    /\ baseState = Sentinel
    /\ queue = <<>>
    /\ effectPending = TRUE
    /\ ctx = <<>>
    /\ drawn = Sentinel
    /\ initWrites = 0
    /\ clicks = 0
    /\ lastClick = [at |-> 0, width |-> 0, x |-> 0]
    /\ args = NoCall
    /\ ret = NoCall

Click == \E clientX \in ClientXs, left \in RectLefts : handleCanvasClick(clientX, left)

Layout == \E w \in ParentWidths : Resize(w)

Next == FlushEffects \/ Render \/ Click \/ Layout

Spec == Init /\ [][Next]_vars

\* React runs the passive effects of every commit and renders every queued
\* update, hence the weak fairness.
FairSpec == Init /\ [][Next]_vars /\ WF_vars(FlushEffects) /\ WF_vars(Render)

----------------------------------------------------------------------------
(* calculateInverseKinematics, in the fixed point of the module *)

\* Math.sqrt on a non-negative number: the root, rounded down to a whole unit
RECURSIVE SqrtBetween(_, _, _)
SqrtBetween(n, lo, hi) ==
    IF hi - lo <= 1 THEN lo
    ELSE LET mid == (lo + hi) \div 2
         IN  IF mid * mid <= n THEN SqrtBetween(n, mid, hi) ELSE SqrtBetween(n, lo, mid)

\* 46341 * 46341 is the first square above TLC's 32-bit integers
Sqrt(n) == SqrtBetween(n, 0, 46341)

\* num / den as a Unit-scaled ratio, for den > 0 (the product is kept inside TLC's integers)
Ratio(num, den) ==
    IF num <= 2147483647 \div Unit \/ den < Unit
    THEN (num * Unit) \div den
    ELSE num \div (den \div Unit)

NaN == [c |-> 0, s |-> 0]

\* Math.atan2(y, x); Math.atan2(0, 0) is 0
Atan2(y, x) ==
    LET h == Sqrt(x * x + y * y)
    IN  IF h = 0 THEN [c |-> Unit, s |-> 0]
        ELSE [c |-> (x * Unit) \div h, s |-> (y * Unit) \div h]

\* Math.acos(num / den) for den >= 0: 0 / 0 is NaN, n / 0 is an infinity, and
\* Math.acos of NaN, of an infinity or of a number outside [-1, 1] is NaN
Acos(num, den) ==
    IF den = 0 \/ num > den \/ -num > den THEN NaN
    ELSE LET cosine == Ratio(num, den)
         IN  [c |-> cosine, s |-> Sqrt(Unit * Unit - cosine * cosine)]

\* alpha + beta; NaN + anything is NaN
Plus(alpha, beta) ==
    IF alpha = NaN \/ beta = NaN THEN NaN
    ELSE [c |-> (alpha.c * beta.c - alpha.s * beta.s) \div Unit,
          s |-> (alpha.s * beta.c + alpha.c * beta.s) \div Unit]

\* The function has no throw statement: threw is FALSE on every path.
calculateInverseKinematics(x, y, lengths) ==
    LET l1 == lengths[1]
        l2 == lengths[2]
        l3 == lengths[3]
        theta1 == Atan2(y, x)
        r == Sqrt(x * x + y * y)
        a == r - l3
        b == Sqrt(a * a + l2 * l2)
        c == Sqrt(l1 * l1 + b * b)
        theta3 == Acos(l1 * l1 + b * b - c * c, 2 * l1 * b)
        alpha == Atan2(a, l2)
        beta == Acos(l1 * l1 + c * c - b * b, 2 * l1 * c)
        theta2 == Plus(alpha, beta)
    IN  [threw |-> FALSE, thetas |-> <<theta1, theta2, theta3>>]

\* The end-effector of the chain drawArm composes, from anchor (0, 0), y upwards
forward(lengths, thetas) ==
    [x |-> LinkEndX(LinkEndX(LinkEndX(0, lengths[1], thetas[1]), lengths[2], thetas[2]),
                    lengths[3], thetas[3]),
     y |-> -LinkEndY(LinkEndY(LinkEndY(0, lengths[1], thetas[1]), lengths[2], thetas[2]),
                     lengths[3], thetas[3])]

----------------------------------------------------------------------------
(* Direct calls of the pure functions, on inputs drawn from bounded sets *)

TargetCoords == {-100, 0, 50, 60, 100, 300}
IKLengths == { <<60, 80, 60>>, <<30, 40, 50>>, <<0, 80, 60>>, <<60, 0, 60>> }

\* directions whose cosine and sine are exact in the fixed point
Angles == { [c |-> Unit, s |-> 0], [c |-> 0, s |-> Unit], [c |-> -Unit, s |-> 0],
            [c |-> 0, s |-> -Unit], [c |-> 60, s |-> 80], [c |-> -80, s |-> 60],
            [c |-> 28, s |-> -96] }
SceneThetas == { <<t1, t2, t3>> : t1 \in {armThetas[1], [c |-> 60, s |-> 80]},
                                  t2 \in {armThetas[2], [c |-> -80, s |-> 60]},
                                  t3 \in Angles }
SceneLengths == { <<60, 80, 60>>, <<30, 40, 50>>, <<5, 5, 5>> }
ScenePoses == { [x |-> Px(350), y |-> Px(210)], [x |-> 0, y |-> 0],
                [x |-> -Px(50), y |-> Px(210)], [x |-> 50, y |-> Px(210)] }

PxAll(lengths) == <<Px(lengths[1]), Px(lengths[2]), Px(lengths[3])>>

IKArgs == { [op |-> "ik", x |-> Px(x), y |-> Px(y), lengths |-> PxAll(l)] :
            x \in TargetCoords, y \in TargetCoords, l \in IKLengths }

SceneArgs == { [op |-> "scene", pose |-> p, lengths |-> PxAll(l), thetas |-> t] :
               p \in ScenePoses, l \in SceneLengths, t \in SceneThetas }

InitPure ==
    /\ surface = "ready"
    /\ parentWidth = 0
    /\ canvas = [width |-> defaultCanvasWidth, height |-> 150]
    /\ listener = FALSE
    /\ basePosition = Sentinel
    /\ baseState = Sentinel
    /\ queue = <<>>
    /\ effectPending = TRUE
    /\ ctx = <<>>
    /\ drawn = Sentinel
    /\ initWrites = 0
    /\ clicks = 0
    /\ lastClick = [at |-> 0, width |-> 0, x |-> 0]
    /\ args \in IKArgs \cup SceneArgs
    /\ ret = NoCall

SolveIK ==
    /\ args.op = "ik"
    /\ ret = NoCall
    /\ ret' = [op |-> "ik", val |-> calculateInverseKinematics(args.x, args.y, args.lengths)]
    /\ UNCHANGED <<uiVars, args>>

\* one redraw of the rig: drawBase, then drawArm (which calls drawGripper)
Redraw ==
    /\ args.op = "scene"
    /\ ret = NoCall
    /\ ret' = [op |-> "scene",
               log |-> drawBase(args.pose.x, args.pose.y, Px(baseWidth), Px(baseHeight),
                                Px(wheelRadius), Px(canvasHeight), Px(groundHeight))
                       \o drawArm(args.pose.x, args.pose.y, args.lengths, args.thetas,
                                  Px(baseWidth))]
    /\ UNCHANGED <<uiVars, args>>

NextPure == SolveIK \/ Redraw

PureSpec == InitPure /\ [][NextPure]_vars

----------------------------------------------------------------------------
(* Properties of the base position controller, under Spec and FairSpec *)

\* the pose once every update issued so far is rendered
Latest == ApplyQueue(baseState, queue)

RestY == Px(canvasHeight) - Px(groundHeight) - Px(baseHeight) - Px(wheelRadius)

InRange(x, cWidth) == 0 <= x /\ x <= Px(cWidth) - Px(baseWidth)

\* a step that is a run of the passive effects with the surface in place
EffectRan == surface = "ready" /\ effectPending /\ ~effectPending'

\* C1 as stated: for every click and every viewport width, the x that
\* handleCanvasClick computes lies in [0, canvas.width - baseWidth].
C1_ClampEveryWidth ==
    clicks > 0 => InRange(lastClick.x, lastClick.width)

\* C1 amended: for every click and every viewport width that is at least the base
\* width, the x that handleCanvasClick computes lies in [0, canvas.width - baseWidth];
\* with width 800 a click at 10 gives 0 and a click at 790 gives 700.
C1_ClampWhenBaseFits ==
    clicks > 0 =>
        /\ lastClick.width >= baseWidth => InRange(lastClick.x, lastClick.width)
        /\ lastClick.width = 800 /\ lastClick.at = Px(10) => lastClick.x = 0
        /\ lastClick.width = 800 /\ lastClick.at = Px(790) => lastClick.x = Px(700)

C1_Witness ==
    /\ clicks > 0
    /\ lastClick.width = 800
    /\ lastClick.at = Px(790)
    /\ lastClick.x = Px(700)

\* C2: in every reachable state BasePose.x is within [0, canvas.width - baseWidth],
\* canvas.width being the width in force in that state.  Stated here for the states
\* in which the base fits the canvas, where the interval is not empty.
C2_AlwaysClamped ==
    canvas.width >= baseWidth => InRange(basePosition.x, canvas.width)

\* C3: once initialization has written BasePose, every later run of the draw effect
\* issues no update and leaves BasePose as it is, whatever the width it runs with
\* and whatever clicks came in between.
C3_InitIdempotent ==
    [][(initWrites >= 1 /\ EffectRan) =>
          /\ queue' = queue
          /\ basePosition' = basePosition
          /\ initWrites' = initWrites]_vars

\* C4: BasePose.y is written once, by initialization: a click leaves y as it is,
\* a y that is not the default never changes, and line 92 runs at most once.
C4_YWrittenOnce ==
    [][/\ clicks' # clicks => Latest'.y = Latest.y
       /\ Latest.y # 0 => Latest'.y = Latest.y /\ basePosition'.y \in {basePosition.y, Latest.y}
       /\ Latest'.y # Latest.y => Latest'.y = RestY /\ initWrites' = 1
       /\ initWrites' <= 1]_vars

\* C5: every draw of the base and arm uses the pose with every update issued so far
\* applied; no scene is drawn with the pose from before an update already issued.
C5_DrawsLatestPose ==
    [][EffectRan => drawn' = Latest']_vars

\* C10: the update/redraw loop converges.  Line 92 runs at most once; with the
\* surface in place the loop comes to rest with nothing queued, no effect pending,
\* y at its rest value and the pose last drawn being the current one; with no click
\* that pose is the centred one for the width in force.
Quiescent ==
    /\ queue = <<>>
    /\ ~effectPending
    /\ basePosition.y = RestY
    /\ drawn = basePosition
    /\ clicks = 0 => basePosition.x = (Px(canvas.width) - Px(baseWidth)) \div 2

C10_Converges ==
    /\ [](initWrites <= 1)
    /\ surface = "ready" => <>[]Quiescent

----------------------------------------------------------------------------
(* Properties of the pure functions, under PureSpec *)

Select(log, name) == SelectSeq(log, LAMBDA e : e.op = name)

\* the stroked segments of a log, in drawing order: beginPath, moveTo, lineTo,
\* strokeStyle, stroke
RECURSIVE SegmentsFrom(_, _)
SegmentsFrom(log, i) ==
    IF i + 4 > Len(log) THEN <<>>
    ELSE IF /\ log[i].op = "beginPath"
            /\ log[i + 1].op = "moveTo"
            /\ log[i + 2].op = "lineTo"
            /\ log[i + 4].op = "stroke"
         THEN <<[from |-> log[i + 1].a, to |-> log[i + 2].a]>> \o SegmentsFrom(log, i + 5)
         ELSE SegmentsFrom(log, i + 1)

Segments(log) == SegmentsFrom(log, 1)

Sq(n) == n * n

Reach(lengths) == lengths[1] + lengths[2] + lengths[3]

\* the target is infeasible: further than l1 + l2 + l3, or l1 = 0, or b = 0
Infeasible(in) ==
    \/ Sq(in.x) + Sq(in.y) > Sq(Reach(in.lengths))
    \/ in.lengths[1] = 0
    \/ in.lengths[2] = 0 /\ Sq(in.x) + Sq(in.y) = Sq(in.lengths[3])

\* the target is in the annulus the three links can reach
Reachable(in) ==
    LET longest == Max(in.lengths[1], Max(in.lengths[2], in.lengths[3]))
        inner == Max(0, 2 * longest - Reach(in.lengths))
    IN  /\ \A i \in 1..3 : in.lengths[i] > 0
        /\ Sq(in.x) + Sq(in.y) <= Sq(Reach(in.lengths))
        /\ Sq(in.x) + Sq(in.y) >= Sq(inner)

\* 10 pixels: far above the claim's 1e-6 and above the rounding of the fixed point
RoundTripTol == 10 * Unit

Near(p, x, y) ==
    /\ p.x - x <= RoundTripTol /\ x - p.x <= RoundTripTol
    /\ p.y - y <= RoundTripTol /\ y - p.y <= RoundTripTol

\* C6: for an infeasible target calculateInverseKinematics fails with an error and
\* returns no NaN angle.
C6_InfeasibleThrows ==
    (ret.op = "ik" /\ Infeasible(args)) =>
        /\ ret.val.threw
        /\ \A i \in 1..3 : ret.val.thetas[i] # NaN

\* C7: for a reachable target and positive link lengths, the links composed with the
\* angles calculateInverseKinematics returns end at the target.
C7_RoundTrip ==
    (ret.op = "ik" /\ Reachable(args)) =>
        Near(forward(args.lengths, ret.val.thetas), args.x, args.y)

\* C8: one redraw emits 2 wheel circles, 1 base rectangle, 3 arm links and 2 gripper
\* fingers; link 1 starts at the shoulder anchor, link 2 at link 1's end, link 3 at
\* link 2's end, and both fingers have the end of link 3 as one end point.
C8_SceneShape ==
    ret.op = "scene" =>
        LET segs == Segments(ret.log)
            arcs == Select(ret.log, "arc")
            fills == Select(ret.log, "fillRect")
            strokes == Select(ret.log, "strokeRect")
        IN  /\ Len(arcs) = 2
            /\ \A i \in 1..2 : arcs[i].a[3] = Px(wheelRadius) /\ arcs[i].a[4] = 0
                               /\ arcs[i].a[5] = 2
            /\ Len(Select(ret.log, "fill")) = 1
            /\ Len(fills) = 1 /\ Len(strokes) = 1 /\ fills[1].a = strokes[1].a
            /\ fills[1].a = <<args.pose.x, args.pose.y, Px(baseWidth), Px(baseHeight)>>
            /\ Len(segs) = 5
            /\ Len(Select(ret.log, "stroke")) = 5
            /\ Len(Select(ret.log, "moveTo")) = 5
            /\ Len(Select(ret.log, "lineTo")) = 5
            /\ segs[1].from = <<args.pose.x + Px(80), args.pose.y>>
            /\ segs[2].from = segs[1].to
            /\ segs[3].from = segs[2].to
            /\ segs[3].to \in {segs[4].from, segs[4].to}
            /\ segs[3].to \in {segs[5].from, segs[5].to}

C8_Witness ==
    /\ ret.op = "scene"
    /\ args.thetas[3] = [c |-> 28, s |-> -96]
    /\ args.lengths = PxAll(<<30, 40, 50>>)
    /\ Len(Segments(ret.log)) = 5
    /\ Segments(ret.log)[3].to # Segments(ret.log)[1].to

\* C9 as stated: the two wheels are circles of radius wheelRadius centred on the
\* base's left and right edges (x = base.x and x = base.x + baseWidth), at
\* y = height - groundHeight - wheelRadius.
C9_WheelsAtEdges ==
    ret.op = "scene" =>
        LET arcs == Select(ret.log, "arc")
        IN  /\ Len(arcs) = 2
            /\ arcs[1].a = <<args.pose.x, Px(canvasHeight) - Px(groundHeight) - Px(wheelRadius),
                             Px(wheelRadius), 0, 2>>
            /\ arcs[2].a = <<args.pose.x + Px(baseWidth),
                             Px(canvasHeight) - Px(groundHeight) - Px(wheelRadius),
                             Px(wheelRadius), 0, 2>>

\* C9 amended: the two wheels are circles of radius wheelRadius centred one radius
\* inside the base's left and right edges (x = base.x + wheelRadius and
\* x = base.x + baseWidth - wheelRadius), at y = height - groundHeight - wheelRadius.
C9_WheelsInsideEdges ==
    ret.op = "scene" =>
        LET arcs == Select(ret.log, "arc")
        IN  /\ Len(arcs) = 2
            /\ arcs[1].a = <<args.pose.x + Px(wheelRadius),
                             Px(canvasHeight) - Px(groundHeight) - Px(wheelRadius),
                             Px(wheelRadius), 0, 2>>
            /\ arcs[2].a = <<args.pose.x + Px(baseWidth) - Px(wheelRadius),
                             Px(canvasHeight) - Px(groundHeight) - Px(wheelRadius),
                             Px(wheelRadius), 0, 2>>

C9_Witness ==
    /\ ret.op = "scene"
    /\ args.pose.x = -Px(50)
    /\ Select(ret.log, "arc")[1].a[1] = -Px(40)
    /\ Select(ret.log, "arc")[2].a[1] = Px(40)

====
